---- MODULE Spec2Model ----
(***************************************************************************)
(* Expansion-team overlay: the mapping registry (expansion_teams.ts), the  *)
(* enrichment transform and search index (team_utils.ts), the name         *)
(* resolver (enhanced_team_utils.ts, enhanced_exporter.ts), the enhanced   *)
(* team list (enhanced_madden_db.ts) and the force-sim classifier.         *)
(*                                                                         *)
(* A JavaScript string is a sequence of one-character strings, so that     *)
(* toLowerCase, includes, split and substring are computed, not assumed.   *)
(* A JavaScript object is a record; {...a, k: v} is ([k |-> v] @@ a).      *)
(***************************************************************************)
EXTENDS Integers, Sequences, FiniteSets, TLC

VARIABLES
    expansionTeamMappings,  \* the module-level Map<number, ExpansionTeamMapping>
    originalTeams,          \* what originalTeamList.getLatestTeams() returns
    enhancedTeams,          \* the array captured by createEnhancedTeamList
    teamMap,                \* the lookup map captured by createEnhancedTeamList
    lastCall,               \* the most recent call: its name, arguments and return value
    homeUsers,              \* users who reacted for the home side
    awayUsers,              \* users who reacted for the away side
    simResult               \* what the classifier returned for homeUsers/awayUsers

vars == <<expansionTeamMappings, originalTeams, enhancedTeams, teamMap, lastCall,
          homeUsers, awayUsers, simResult>>

----------------------------------------------------------------------------
(* Bounds of the model *)

\* reaction sets are drawn from users 1..MaxUsers
MaxUsers == 3

\* register is called with divisionId in 0..MaxDivisionId
MaxDivisionId == 2

\* register is called with conferenceId in 0..MaxConferenceId
MaxConferenceId == 1

\* the largest number of teams of a league roster that play outside their home division
MaxRealigned == 1

----------------------------------------------------------------------------
(* JavaScript strings *)

UpperCaseLetters ==
    <<"A","B","C","D","E","F","G","H","I","J","K","L","M",
      "N","O","P","Q","R","S","T","U","V","W","X","Y","Z">>

LowerCaseLetters ==
    <<"a","b","c","d","e","f","g","h","i","j","k","l","m",
      "n","o","p","q","r","s","t","u","v","w","x","y","z">>

\* the lower-case form of every upper-case letter
lowerOf ==
    [c \in {UpperCaseLetters[i] : i \in DOMAIN UpperCaseLetters} |->
        LowerCaseLetters[CHOOSE i \in DOMAIN UpperCaseLetters : UpperCaseLetters[i] = c]]

\* the upper-case form of every lower-case letter
upperOf ==
    [c \in {LowerCaseLetters[i] : i \in DOMAIN LowerCaseLetters} |->
        UpperCaseLetters[CHOOSE i \in DOMAIN LowerCaseLetters : LowerCaseLetters[i] = c]]

\* String.prototype.toLowerCase
toLowerCase(s) ==
    [i \in 1..Len(s) |-> IF s[i] \in DOMAIN lowerOf THEN lowerOf[s[i]] ELSE s[i]]

\* String.prototype.toUpperCase
toUpperCase(s) ==
    [i \in 1..Len(s) |-> IF s[i] \in DOMAIN upperOf THEN upperOf[s[i]] ELSE s[i]]

\* String.prototype.includes
includes(s, sub) ==
    \E k \in 0..(Len(s) - Len(sub)) : SubSeq(s, k + 1, k + Len(sub)) = sub

\* String.prototype.substring(0, n)
substring0(s, n) == SubSeq(s, 1, IF n < Len(s) THEN n ELSE Len(s))

\* String.prototype.split(' '): the words between single spaces (empty words kept)
RECURSIVE splitFrom(_, _, _)
splitFrom(s, i, word) ==
    IF i > Len(s) THEN <<word>>
    ELSE IF s[i] = " " THEN <<word>> \o splitFrom(s, i + 1, <<>>)
    ELSE splitFrom(s, i + 1, Append(word, s[i]))

splitSpaces(s) == splitFrom(s, 1, <<>>)

\* words.map(word => word.charAt(0)).join('')
RECURSIVE initials(_)
initials(words) ==
    IF words = <<>> THEN <<>>
    ELSE (IF Head(words) = <<>> THEN <<>> ELSE <<Head(words)[1]>>) \o initials(Tail(words))

\* the primary collation weight of a character: a letter sorts by its place in the
\* alphabet whatever its case, and the space sorts before the letters
letterWeight ==
    [c \in DOMAIN lowerOf \cup DOMAIN upperOf |->
        CHOOSE i \in DOMAIN UpperCaseLetters : UpperCaseLetters[i] = c \/ LowerCaseLetters[i] = c]

primaryWeight(c) == IF c \in DOMAIN letterWeight THEN letterWeight[c] ELSE 0

RECURSIVE primaryCompare(_, _)
primaryCompare(a, b) ==
    IF a = <<>> /\ b = <<>> THEN 0
    ELSE IF a = <<>> THEN -1
    ELSE IF b = <<>> THEN 1
    ELSE IF primaryWeight(Head(a)) < primaryWeight(Head(b)) THEN -1
    ELSE IF primaryWeight(Head(a)) > primaryWeight(Head(b)) THEN 1
    ELSE primaryCompare(Tail(a), Tail(b))

RECURSIVE caseCompare(_, _)
caseCompare(a, b) ==
    IF a = <<>> \/ b = <<>> THEN 0
    ELSE IF Head(a) = Head(b) THEN caseCompare(Tail(a), Tail(b))
    ELSE IF Head(a) \in DOMAIN upperOf THEN -1
    ELSE 1

\* String.prototype.localeCompare: letters first, lower case before upper case on a tie
localeCompare(a, b) ==
    IF primaryCompare(a, b) # 0 THEN primaryCompare(a, b) ELSE caseCompare(a, b)

----------------------------------------------------------------------------
(* The names that occur in the model *)

sDragons == <<"D","r","a","g","o","n","s">>
sNightHawks == <<"N","i","g","h","t"," ","H","a","w","k","s">>
sSnowhawks == <<"S","n","o","w","h","a","w","k","s">>
sPatriots == <<"P","a","t","r","i","o","t","s">>
sNewEngland == <<"N","e","w"," ","E","n","g","l","a","n","d">>
sNE == <<"N","E">>
sJets == <<"J","e","t","s">>
sNewYork == <<"N","e","w"," ","Y","o","r","k">>
sNYJ == <<"N","Y","J">>
sBears == <<"B","e","a","r","s">>
sChicago == <<"C","h","i","c","a","g","o">>
sCHI == <<"C","H","I">>
sLondon == <<"L","o","n","d","o","n">>
sLON == <<"L","O","N">>
sAFCEast == <<"A","F","C"," ","E","a","s","t">>
sNFCNorth == <<"N","F","C"," ","N","o","r","t","h">>
sAFCNorth == <<"A","F","C"," ","N","o","r","t","h">>
sAFCSouth == <<"A","F","C"," ","S","o","u","t","h">>
sAFCWest == <<"A","F","C"," ","W","e","s","t">>
sNFCEast == <<"N","F","C"," ","E","a","s","t">>
sNFCSouth == <<"N","F","C"," ","S","o","u","t","h">>
sNFCWest == <<"N","F","C"," ","W","e","s","t">>
sAFCCentral == <<"A","F","C"," ","C","e","n","t","r","a","l">>
sne == <<"n","e">>
sdragons == <<"d","r","a","g","o","n","s">>
sDRAGONS == <<"D","R","A","G","O","N","S">>
shawks == <<"h","a","w","k","s">>
sYJ == <<"Y","J">>
szz == <<"z","z">>
sdra == <<"d","r","a">>
sConstructor == <<"c","o","n","s","t","r","u","c","t","o","r">>

----------------------------------------------------------------------------
(* The catalog *)

\* the entries of EXPANSION_TEAMS that the model uses (colors left out)
EXPANSION_TEAMS ==
    (sDragons :> [name |-> sDragons, logoId |-> 1011]) @@
    (sNightHawks :> [name |-> sNightHawks, logoId |-> 1019]) @@
    (sSnowhawks :> [name |-> sSnowhawks, logoId |-> 1026])

\* property names every object literal inherits from Object.prototype
ObjectPrototypeKeys == {sConstructor}

\* name in EXPANSION_TEAMS: own keys and inherited ones
isValidExpansionTeamName(name) ==
    name \in DOMAIN EXPANSION_TEAMS \/ name \in ObjectPrototypeKeys

----------------------------------------------------------------------------
(* The mapping registry *)

\* a register that keeps the mapping a team already has
registerKeepingFirst(mappings, teamId, expansionName, originalTeamName, divisionId, conferenceId) ==
    mappings @@ (teamId :> [expansionName |-> expansionName,
                            originalTeamId |-> teamId,
                            originalTeamName |-> originalTeamName,
                            divisionId |-> divisionId,
                            conferenceId |-> conferenceId])

\* a register that writes the names and keeps the division and conference of the
\* mapping a team already has
registerMixingFields(mappings, teamId, expansionName, originalTeamName, divisionId, conferenceId) ==
    (teamId :> [expansionName |-> expansionName,
                originalTeamId |-> teamId,
                originalTeamName |-> originalTeamName,
                divisionId |-> IF teamId \in DOMAIN mappings
                               THEN mappings[teamId].divisionId ELSE divisionId,
                conferenceId |-> IF teamId \in DOMAIN mappings
                                 THEN mappings[teamId].conferenceId ELSE conferenceId]) @@ mappings

\* expansionTeamMappings.set(teamId, {...})
registerExpansionTeam(mappings, teamId, expansionName, originalTeamName, divisionId, conferenceId) ==
    (teamId :> [expansionName |-> expansionName,
                originalTeamId |-> teamId,
                originalTeamName |-> originalTeamName,
                divisionId |-> divisionId,
                conferenceId |-> conferenceId]) @@ mappings

\* expansionTeamMappings.has(teamId)
isExpansionTeam(mappings, teamId) == teamId \in DOMAIN mappings

\* what Map.get and a failed find return
undefined == [undefined |-> TRUE]

\* expansionTeamMappings.get(teamId)
getExpansionTeamMapping(mappings, teamId) ==
    IF teamId \in DOMAIN mappings THEN mappings[teamId] ELSE undefined

\* a remove that empties the registry
removeClearingAll(mappings, teamId) ==
    IF teamId \in DOMAIN mappings THEN <<>> ELSE mappings

\* expansionTeamMappings.delete(teamId)
removeExpansionTeamMapping(mappings, teamId) ==
    [k \in DOMAIN mappings \ {teamId} |-> mappings[k]]

\* a logo lookup without the fallback to the original logo
getTeamLogoIdWithoutFallback(mappings, teamId, originalLogoId) ==
    IF isExpansionTeam(mappings, teamId)
    THEN IF mappings[teamId].expansionName \in DOMAIN EXPANSION_TEAMS
         THEN EXPANSION_TEAMS[mappings[teamId].expansionName].logoId
         ELSE 0
    ELSE originalLogoId

\* expansionTeam?.logoId || originalLogoId
getTeamLogoId(mappings, teamId, originalLogoId) ==
    IF isExpansionTeam(mappings, teamId)
    THEN IF mappings[teamId].expansionName \in DOMAIN EXPANSION_TEAMS
            /\ EXPANSION_TEAMS[mappings[teamId].expansionName].logoId # 0
         THEN EXPANSION_TEAMS[mappings[teamId].expansionName].logoId
         ELSE originalLogoId
    ELSE originalLogoId

getTeamDisplayName(mappings, teamId, originalName) ==
    IF isExpansionTeam(mappings, teamId)
    THEN mappings[teamId].expansionName
    ELSE originalName

\* obj.field || fallback, for a string field that may be missing or empty
stringOr(obj, field, fallback) ==
    IF field \in DOMAIN obj /\ obj[field] # <<>> THEN obj[field] ELSE fallback

\* obj.field || 0, for a number field that may be missing
numberOr0(obj, field) ==
    IF field \in DOMAIN obj THEN obj[field] ELSE 0

\* team.displayName || team.nickName || team.teamName (the empty string when all are falsy)
detectedTeamName(team) ==
    stringOr(team, "displayName", stringOr(team, "nickName", stringOr(team, "teamName", <<>>)))

\* a detection that registers a team again although it holds a mapping
autoDetectTeamRefreshing(mappings, team) ==
    IF detectedTeamName(team) # <<>>
       /\ isValidExpansionTeamName(detectedTeamName(team))
    THEN registerExpansionTeam(mappings, team.teamId, detectedTeamName(team),
                               stringOr(team, "originalName", detectedTeamName(team)),
                               numberOr0(team, "divisionId"),
                               numberOr0(team, "conferenceId"))
    ELSE mappings

\* the body of the forEach callback of autoDetectExpansionTeams
autoDetectTeam(mappings, team) ==
    IF detectedTeamName(team) # <<>>
       /\ isValidExpansionTeamName(detectedTeamName(team))
       /\ ~isExpansionTeam(mappings, team.teamId)
    THEN registerExpansionTeam(mappings, team.teamId, detectedTeamName(team),
                               stringOr(team, "originalName", detectedTeamName(team)),
                               numberOr0(team, "divisionId"),
                               numberOr0(team, "conferenceId"))
    ELSE mappings

\* a detection that ends with the first team it registers
RECURSIVE autoDetectStoppingAtFirst(_, _)
autoDetectStoppingAtFirst(mappings, teams) ==
    IF teams = <<>> THEN mappings
    ELSE IF DOMAIN autoDetectTeam(mappings, Head(teams)) # DOMAIN mappings
         THEN autoDetectTeam(mappings, Head(teams))
         ELSE autoDetectStoppingAtFirst(mappings, Tail(teams))

\* a detection that registers nothing
autoDetectNothing(mappings, teams) == mappings

RECURSIVE autoDetectExpansionTeams(_, _)
autoDetectExpansionTeams(mappings, teams) ==
    IF teams = <<>> THEN mappings
    ELSE autoDetectExpansionTeams(autoDetectTeam(mappings, Head(teams)), Tail(teams))

----------------------------------------------------------------------------
(* Enrichment *)

\* enhanceTeam keeping the overlaid name as the original one
enhanceTeamLosingOriginal(mappings, team) ==
    IF isExpansionTeam(mappings, team.teamId)
    THEN [displayName |-> getTeamDisplayName(mappings, team.teamId, team.displayName),
          nickName |-> mappings[team.teamId].expansionName,
          originalDisplayName |-> getTeamDisplayName(mappings, team.teamId, team.displayName),
          originalNickName |-> mappings[team.teamId].expansionName,
          logoId |-> getTeamLogoId(mappings, team.teamId, team.logoId),
          isExpansionTeam |-> TRUE] @@ team
    ELSE [isExpansionTeam |-> FALSE] @@ team

\* enhanceTeam taking division and conference from the mapping
enhanceTeamWithMappedDivision(mappings, team) ==
    IF isExpansionTeam(mappings, team.teamId)
    THEN [displayName |-> getTeamDisplayName(mappings, team.teamId, team.displayName),
          nickName |-> mappings[team.teamId].expansionName,
          originalDisplayName |-> team.displayName,
          originalNickName |-> team.nickName,
          logoId |-> getTeamLogoId(mappings, team.teamId, team.logoId),
          divisionId |-> mappings[team.teamId].divisionId,
          conferenceId |-> mappings[team.teamId].conferenceId,
          isExpansionTeam |-> TRUE] @@ team
    ELSE [isExpansionTeam |-> FALSE] @@ team

\* enhanceTeam taking the nickName from the record it is given
enhanceTeamNickFromInput(mappings, team) ==
    IF isExpansionTeam(mappings, team.teamId)
    THEN [displayName |-> getTeamDisplayName(mappings, team.teamId, team.displayName),
          nickName |-> team.displayName,
          originalDisplayName |-> team.displayName,
          originalNickName |-> team.nickName,
          logoId |-> getTeamLogoId(mappings, team.teamId, team.logoId),
          isExpansionTeam |-> TRUE] @@ team
    ELSE [isExpansionTeam |-> FALSE] @@ team

\* the callback of teams.map in enhanceTeamData, with the registry as it is after autoDetect
enhanceTeam(mappings, team) ==
    IF isExpansionTeam(mappings, team.teamId)
    THEN [displayName |-> getTeamDisplayName(mappings, team.teamId, team.displayName),
          nickName |-> mappings[team.teamId].expansionName,
          originalDisplayName |-> team.displayName,
          originalNickName |-> team.nickName,
          logoId |-> getTeamLogoId(mappings, team.teamId, team.logoId),
          isExpansionTeam |-> TRUE] @@ team
    ELSE [isExpansionTeam |-> FALSE] @@ team

\* an enrichment that returns the teams in the opposite order
enhancedTeamDataReversed(mappings, teams) ==
    [i \in 1..Len(teams) |-> enhanceTeam(mappings, teams[Len(teams) + 1 - i])]

\* the array enhanceTeamData returns, given the registry after autoDetect
enhancedTeamData(mappings, teams) ==
    [i \in 1..Len(teams) |-> enhanceTeam(mappings, teams[i])]

\* Number.prototype.toString() of a non-negative integer: its decimal digits
RECURSIVE toString(_)
toString(n) ==
    IF n < 10 THEN <<SubSeq(<<"0","1","2","3","4","5","6","7","8","9">>, n + 1, n + 1)[1]>>
    ELSE toString(n \div 10) \o toString(n % 10)

\* the callback of enhancedTeams.map in enhanceTeamEvents: the fields of the team
\* are spread last and win over key, event_type and platform
teamEvent(team) ==
    team @@ [key |-> toString(team.teamId),
             event_type |-> "MADDEN_TEAM",
             platform |-> IF "platform" \in DOMAIN team /\ team.platform # <<>>
                          THEN team.platform ELSE "unknown"]

\* the array enhanceTeamEvents returns, given the registry after autoDetect
enhanceTeamEvents(mappings, teams) ==
    [i \in 1..Len(teams) |-> teamEvent(enhancedTeamData(mappings, teams)[i])]

\* the input array after an enhanceTeamData that writes the overlay onto its teams
teamsOverlaidInPlace(mappings, teams) == enhancedTeamData(mappings, teams)

\* the input array as enhanceTeamData leaves it: it is only read
teamsAfterEnhance(mappings, teams) == teams

----------------------------------------------------------------------------
(* Display order *)

\* the comparator of sortTeamsForDivisionDisplay
compareForDivisionDisplay(mappings, a, b) ==
    IF a.divName # b.divName
    THEN localeCompare(a.divName, b.divName)
    ELSE localeCompare(getTeamDisplayName(mappings, a.teamId, a.displayName),
                       getTeamDisplayName(mappings, b.teamId, b.displayName))

RECURSIVE insertForDivisionDisplay(_, _, _)
insertForDivisionDisplay(mappings, team, sorted) ==
    IF sorted = <<>> THEN <<team>>
    ELSE IF compareForDivisionDisplay(mappings, team, Head(sorted)) < 0
         THEN <<team>> \o sorted
         ELSE <<Head(sorted)>> \o insertForDivisionDisplay(mappings, team, Tail(sorted))

\* teams.sort(comparator): a stable sort, in place
RECURSIVE sortTeamsForDivisionDisplay(_, _)
sortTeamsForDivisionDisplay(mappings, teams) ==
    IF teams = <<>> THEN <<>>
    ELSE insertForDivisionDisplay(mappings, teams[Len(teams)],
             sortTeamsForDivisionDisplay(mappings, SubSeq(teams, 1, Len(teams) - 1)))

----------------------------------------------------------------------------
(* Division integrity *)

\* the number of teams each division should have
TeamsPerDivision == 4

\* the number of teams the league should have
LeagueSize == 32

\* divisionCounts.set(divName, (divisionCounts.get(divName) || 0) + 1); the Map is a
\* sequence of entries in insertion order
countDivision(divisionCounts, divName) ==
    IF \E k \in DOMAIN divisionCounts : divisionCounts[k].division = divName
    THEN [k \in DOMAIN divisionCounts |->
             IF divisionCounts[k].division = divName
             THEN [divisionCounts[k] EXCEPT !.count = @ + 1]
             ELSE divisionCounts[k]]
    ELSE Append(divisionCounts, [division |-> divName, count |-> 1])

\* the Map after teams.forEach
RECURSIVE countDivisions(_, _)
countDivisions(divisionCounts, teams) ==
    IF teams = <<>> THEN divisionCounts
    ELSE countDivisions(countDivision(divisionCounts, Head(teams).divName), Tail(teams))

\* the entries the for..of loop stops at
wrongCounts(divisionCounts) ==
    {k \in DOMAIN divisionCounts : divisionCounts[k].count # TeamsPerDivision}

\* a validation that leaves out the check of the total
validateCountsOnly(teams) ==
    LET divisionCounts == countDivisions(<<>>, teams)
        wrong == wrongCounts(divisionCounts)
    IN IF wrong # {}
       THEN [result |-> FALSE,
             warnings |-> <<divisionCounts[CHOOSE k \in wrong : \A l \in wrong : k <= l]>>]
       ELSE [result |-> TRUE, warnings |-> <<>>]

\* validateDivisionIntegrity(teams): the value returned and the lines given to console.warn
validateDivisionIntegrity(teams) ==
    LET divisionCounts == countDivisions(<<>>, teams)
        wrong == wrongCounts(divisionCounts)
    IN IF wrong # {}
       THEN [result |-> FALSE,
             warnings |-> <<divisionCounts[CHOOSE k \in wrong : \A l \in wrong : k <= l]>>]
       ELSE [result |-> Len(teams) = LeagueSize, warnings |-> <<>>]

----------------------------------------------------------------------------
(* The export pipeline *)

\* teamExport.leagueTeamInfoList is present
hasTeamList(teamExport) == "leagueTeamInfoList" \in DOMAIN teamExport

\* the early returns of validateEnhancedTeamExport: an unsuccessful export, or one
\* whose list is missing or empty
exportHasNoTeams(teamExport) ==
    \/ ~teamExport.success
    \/ ~hasTeamList(teamExport)
    \/ Len(teamExport.leagueTeamInfoList) = 0

\* the issue for a list that is not of 32 teams
teamCountIssues(teams) ==
    IF Len(teams) # LeagueSize
    THEN <<[issue |-> "Expected 32 teams", found |-> Len(teams)]>>
    ELSE <<>>

\* the issue for a list whose teamIds are fewer than its teams
duplicateIdIssues(teams) ==
    IF Len(teams) # Cardinality({teams[i].teamId : i \in DOMAIN teams})
    THEN <<[issue |-> "Duplicate team IDs found in export"]>>
    ELSE <<>>

hasWrongCount(entry) == entry.count # TeamsPerDivision

\* one issue for each division whose count is not 4, in the order of the Map
divisionIssues(teams) ==
    LET wrong == SelectSeq(countDivisions(<<>>, teams), hasWrongCount)
    IN [k \in DOMAIN wrong |->
           [issue |-> "Division has teams instead of 4",
            division |-> wrong[k].division, count |-> wrong[k].count]]

isExpansionRecord(team) == team.isExpansionTeam

\* the warning that names the expansion teams of the list
expansionWarnings(mappings, teams) ==
    LET expansionTeams == SelectSeq(enhancedTeamData(mappings, teams), isExpansionRecord)
    IN IF Len(expansionTeams) > 0
       THEN <<[warning |-> "Found expansion teams",
               found |-> Len(expansionTeams),
               names |-> [k \in DOMAIN expansionTeams |-> expansionTeams[k].displayName]]>>
       ELSE <<>>

\* the registry after validateEnhancedTeamExport: enhanceTeamData is called on every
\* list that passes the early returns, whatever issues were found
registryAfterValidate(mappings, teamExport) ==
    IF exportHasNoTeams(teamExport) THEN mappings
    ELSE autoDetectExpansionTeams(mappings, teamExport.leagueTeamInfoList)

\* what validateEnhancedTeamExport returns
validateEnhancedTeamExport(mappings, teamExport) ==
    IF ~teamExport.success
    THEN [valid |-> FALSE, issues |-> <<[issue |-> "Team export marked as unsuccessful"]>>,
          warnings |-> <<>>]
    ELSE IF ~hasTeamList(teamExport) \/ Len(teamExport.leagueTeamInfoList) = 0
    THEN [valid |-> FALSE, issues |-> <<[issue |-> "No team data in export"]>>,
          warnings |-> <<>>]
    ELSE LET teams == teamExport.leagueTeamInfoList
             issues == teamCountIssues(teams) \o duplicateIdIssues(teams) \o divisionIssues(teams)
         IN [valid |-> Len(issues) = 0,
             issues |-> issues,
             warnings |-> expansionWarnings(registryAfterValidate(mappings, teamExport), teams)]

\* the registry after enhanceTeamExport
registryAfterEnhanceExport(mappings, teamExport) ==
    IF ~teamExport.success \/ ~hasTeamList(teamExport) THEN mappings
    ELSE autoDetectExpansionTeams(mappings, teamExport.leagueTeamInfoList)

\* what enhanceTeamExport returns
enhanceTeamExport(mappings, teamExport) ==
    IF ~teamExport.success \/ ~hasTeamList(teamExport) THEN teamExport
    ELSE [leagueTeamInfoList |->
              enhancedTeamData(registryAfterEnhanceExport(mappings, teamExport),
                               teamExport.leagueTeamInfoList)] @@ teamExport

----------------------------------------------------------------------------
(* The search index *)

getTeamAbbreviation(mappings, team) ==
    IF isExpansionTeam(mappings, team.teamId)
    THEN LET words == splitSpaces(mappings[team.teamId].expansionName)
         IN IF Len(words) = 1
            THEN toUpperCase(substring0(words[1], 3))
            ELSE substring0(toUpperCase(initials(words)), 3)
    ELSE team.abbrName

\* the record stored under searchIndex[team.teamId]
searchRecord(mappings, team) ==
    [cityName |-> team.cityName,
     abbrName |-> getTeamAbbreviation(mappings, team),
     nickName |-> IF isExpansionTeam(mappings, team.teamId)
                  THEN mappings[team.teamId].expansionName
                  ELSE team.nickName,
     displayName |-> getTeamDisplayName(mappings, team.teamId, team.displayName),
     id |-> team.teamId,
     originalNickName |-> team.nickName,
     originalDisplayName |-> team.displayName,
     isExpansionTeam |-> isExpansionTeam(mappings, team.teamId)]

\* the position of the last team of the array that has this teamId
lastIndexOfTeam(teams, teamId) ==
    CHOOSE i \in 1..Len(teams) :
        /\ teams[i].teamId = teamId
        /\ \A j \in (i + 1)..Len(teams) : teams[j].teamId # teamId

teamIdsOf(teams) == {teams[i].teamId : i \in 1..Len(teams)}

\* searchIndex: one record per teamId, a later team of the array overwriting an earlier one
createEnhancedTeamSearchIndex(mappings, teams) ==
    [id \in teamIdsOf(teams) |-> searchRecord(mappings, teams[lastIndexOfTeam(teams, id)])]

\* Object.values of an object with integer keys: in ascending key order
RECURSIVE objectValues(_)
objectValues(obj) ==
    IF DOMAIN obj = {} THEN <<>>
    ELSE LET least == CHOOSE k \in DOMAIN obj : \A j \in DOMAIN obj : k <= j
         IN <<obj[least]>> \o objectValues([k \in DOMAIN obj \ {least} |-> obj[k]])

----------------------------------------------------------------------------
(* The enhanced team list *)

\* teamMap: enhancedTeams.forEach(team => teamMap.set(team.teamId, team))
createTeamMap(teams) ==
    [id \in teamIdsOf(teams) |-> teams[lastIndexOfTeam(teams, id)]]

\* originalTeamList.getTeamForId(id), the fallback of getEnhancedTeamForId
getTeamForId(teams, id) == teams[lastIndexOfTeam(teams, id)]

getEnhancedTeamForId(tmap, teams, id) ==
    IF id \in DOMAIN tmap THEN tmap[id] ELSE getTeamForId(teams, id)

----------------------------------------------------------------------------
(* The resolver *)

\* the exact pass comparing with the text as typed
isExactMatchAsTyped(team, teamReference) ==
    \/ toLowerCase(team.displayName) = teamReference
    \/ toLowerCase(team.nickName) = teamReference
    \/ toLowerCase(team.abbrName) = teamReference

\* the predicate of the exact pass
isExactMatch(team, teamReference) ==
    \/ toLowerCase(team.displayName) = toLowerCase(teamReference)
    \/ toLowerCase(team.nickName) = toLowerCase(teamReference)
    \/ toLowerCase(team.abbrName) = toLowerCase(teamReference)

\* a partial pass that also looks into abbrName
isPartialMatchWithAbbr(team, teamReference) ==
    \/ includes(toLowerCase(team.displayName), toLowerCase(teamReference))
    \/ includes(toLowerCase(team.cityName), toLowerCase(teamReference))
    \/ includes(toLowerCase(team.nickName), toLowerCase(teamReference))
    \/ includes(toLowerCase(team.abbrName), toLowerCase(teamReference))

\* the predicate of the partial pass
isPartialMatch(team, teamReference) ==
    \/ includes(toLowerCase(team.displayName), toLowerCase(teamReference))
    \/ includes(toLowerCase(team.cityName), toLowerCase(teamReference))
    \/ includes(toLowerCase(team.nickName), toLowerCase(teamReference))

\* the value of the error property: the template and what is interpolated into it
multipleTeamsError(teamReference, partialMatches) ==
    [message |-> "Multiple teams found",
     teamReference |-> teamReference,
     teamNames |-> [i \in 1..Len(partialMatches) |-> partialMatches[i].displayName]]

\* the not-found error quoting the lower-cased text
noTeamErrorLowerCased(teamReference) ==
    [message |-> "No team found", teamReference |-> toLowerCase(teamReference)]

noTeamError(teamReference) ==
    [message |-> "No team found", teamReference |-> teamReference]

\* validateEnhancedTeamReference taking the first of several partial matches
validatePickingFirstPartial(mappings, teams, tmap, original, teamReference) ==
    LET values == objectValues(createEnhancedTeamSearchIndex(mappings, teams))
        exact == SelectSeq(values, LAMBDA team : isExactMatch(team, teamReference))
        partialMatches == SelectSeq(values, LAMBDA team : isPartialMatch(team, teamReference))
    IN IF exact # <<>>
       THEN [valid |-> TRUE, team |-> getEnhancedTeamForId(tmap, original, exact[1].id)]
       ELSE IF Len(partialMatches) >= 1
       THEN [valid |-> TRUE, team |-> getEnhancedTeamForId(tmap, original, partialMatches[1].id)]
       ELSE [valid |-> FALSE, error |-> noTeamError(teamReference)]

\* validateEnhancedTeamReference consulting the partial pass before the exact pass
validatePartialPassFirst(mappings, teams, tmap, original, teamReference) ==
    LET values == objectValues(createEnhancedTeamSearchIndex(mappings, teams))
        exact == SelectSeq(values, LAMBDA team : isExactMatch(team, teamReference))
        partialMatches == SelectSeq(values, LAMBDA team : isPartialMatch(team, teamReference))
    IN IF Len(partialMatches) = 1
       THEN [valid |-> TRUE, team |-> getEnhancedTeamForId(tmap, original, partialMatches[1].id)]
       ELSE IF Len(partialMatches) > 1
       THEN [valid |-> FALSE, error |-> multipleTeamsError(teamReference, partialMatches)]
       ELSE IF exact # <<>>
       THEN [valid |-> TRUE, team |-> getEnhancedTeamForId(tmap, original, exact[1].id)]
       ELSE [valid |-> FALSE, error |-> noTeamError(teamReference)]

\* validateEnhancedTeamReference, given teamList.getEnhancedLatestTeams() as teams
validateEnhancedTeamReference(mappings, teams, tmap, original, teamReference) ==
    LET values == objectValues(createEnhancedTeamSearchIndex(mappings, teams))
        exact == SelectSeq(values, LAMBDA team : isExactMatch(team, teamReference))
        partialMatches == SelectSeq(values, LAMBDA team : isPartialMatch(team, teamReference))
    IN IF exact # <<>>
       THEN [valid |-> TRUE, team |-> getEnhancedTeamForId(tmap, original, exact[1].id)]
       ELSE IF Len(partialMatches) = 1
       THEN [valid |-> TRUE, team |-> getEnhancedTeamForId(tmap, original, partialMatches[1].id)]
       ELSE IF Len(partialMatches) > 1
       THEN [valid |-> FALSE, error |-> multipleTeamsError(teamReference, partialMatches)]
       ELSE [valid |-> FALSE, error |-> noTeamError(teamReference)]

\* the predicate of the partial pass of findTeamByName
isPartialNameMatch(team, searchLower) ==
    \/ includes(toLowerCase(team.displayName), searchLower)
    \/ includes(toLowerCase(team.nickName), searchLower)
    \/ includes(toLowerCase(team.cityName), searchLower)

\* findTeamByName, given the registry as it is after enhanceTeamData's autoDetect
findTeamByName(mappings, teams, searchName) ==
    LET enhanced == enhancedTeamData(mappings, teams)
        searchLower == toLowerCase(searchName)
        exact == SelectSeq(enhanced, LAMBDA team : isExactMatch(team, searchLower))
        partialMatches == SelectSeq(enhanced, LAMBDA team : isPartialNameMatch(team, searchLower))
    IN IF exact # <<>> THEN exact[1]
       ELSE IF partialMatches # <<>> THEN partialMatches[1]
       ELSE undefined

----------------------------------------------------------------------------
(* The force-sim classifier *)

\* what the classifier returns when none of its three guarded branches fires
noSimRequested == "NONE"

\* classify with the away branch not guarded by an empty home side
classifyAwayUnguarded(home, away) ==
    IF Cardinality(home) > 0 /\ Cardinality(away) = 0 THEN "FORCE_WIN_HOME"
    ELSE IF Cardinality(away) > 0 THEN "FORCE_WIN_AWAY"
    ELSE IF Cardinality(home) > 0 /\ Cardinality(away) > 0 THEN "FAIR_SIM"
    ELSE noSimRequested

\* classify giving the game to the home side when both sides have reactors
classifyHomeOnTie(home, away) ==
    IF Cardinality(home) > 0 THEN "FORCE_WIN_HOME"
    ELSE IF Cardinality(away) > 0 /\ Cardinality(home) = 0 THEN "FORCE_WIN_AWAY"
    ELSE noSimRequested

\* the corrected force-sim logic: three guarded branches, then the fall-through
classify(home, away) ==
    IF Cardinality(home) > 0 /\ Cardinality(away) = 0 THEN "FORCE_WIN_HOME"
    ELSE IF Cardinality(away) > 0 /\ Cardinality(home) = 0 THEN "FORCE_WIN_AWAY"
    ELSE IF Cardinality(home) > 0 /\ Cardinality(away) > 0 THEN "FAIR_SIM"
    ELSE noSimRequested

\* what the earlier logic returns where the lines shown of it end
notShown == "NOT_SHOWN"

\* the earlier logic returning a fair sim whenever the home side has reactors
classifyBeforeFairOnHome(home, away) ==
    IF Cardinality(home) > 0 THEN "FAIR_SIM"
    ELSE notShown

\* the earlier force-sim logic, as far as it is shown: both sides first, then the home side
classifyBefore(home, away) ==
    IF Cardinality(home) > 0 /\ Cardinality(away) > 0 THEN "FAIR_SIM"
    ELSE IF Cardinality(home) > 0 THEN "FORCE_WIN_HOME"
    ELSE notShown

\* createSimMessage(sim): the label returned or the error thrown
createSimMessage(sim) ==
    IF sim.result = "FAIR_SIM" THEN [label |-> "Fair Sim"]
    ELSE IF sim.result = "FORCE_WIN_AWAY" THEN [label |-> "Force Win Away"]
    ELSE IF sim.result = "FORCE_WIN_HOME" THEN [label |-> "Force Win Home"]
    ELSE [thrown |-> "Should not have gotten here! from createSimMessage"]

----------------------------------------------------------------------------
(* The team records and the arguments the operations are called with *)

rawPatriots ==
    [teamId |-> 1, displayName |-> sPatriots, nickName |-> sPatriots,
     cityName |-> sNewEngland, abbrName |-> sNE, divName |-> sAFCEast,
     divisionId |-> 1, conferenceId |-> 1, logoId |-> 21]

rawJets ==
    [teamId |-> 2, displayName |-> sJets, nickName |-> sJets,
     cityName |-> sNewYork, abbrName |-> sNYJ, divName |-> sAFCEast,
     divisionId |-> 1, conferenceId |-> 1, logoId |-> 22]

rawBears ==
    [teamId |-> 3, displayName |-> sBears, nickName |-> sBears,
     cityName |-> sChicago, abbrName |-> sCHI, divName |-> sNFCNorth,
     divisionId |-> 2, conferenceId |-> 0, logoId |-> 3]

\* the Jets after an in-game relocation: the export itself carries the expansion name
rawJetsAsDragons ==
    [rawJets EXCEPT !.displayName = sDragons, !.nickName = sDragons,
                    !.cityName = sLondon, !.abbrName = sLON]

\* the Patriots after an in-game relocation and a realignment
rawPatriotsAsSnowhawks ==
    [rawPatriots EXCEPT !.displayName = sSnowhawks, !.nickName = sSnowhawks,
                        !.divName = sNFCNorth, !.divisionId = 2, !.conferenceId = 0]

\* the team records an export can carry
RawTeams == {rawPatriots, rawPatriotsAsSnowhawks, rawJets, rawJetsAsDragons}

\* the expansion names register is called with
RegisteredNames == {sDragons, sNightHawks}

\* a team whose exported name is a property every JavaScript object inherits
rawPatriotsAsConstructor ==
    [rawPatriots EXCEPT !.displayName = sConstructor, !.nickName = sConstructor]

\* the Jets exported with an empty displayName and an expansion nickName
rawJetsNicknamedDragons ==
    [rawJets EXCEPT !.displayName = <<>>, !.nickName = sDragons]

\* the team records the exports of the registry specification carry
ExportedTeams == RawTeams \cup {rawPatriotsAsConstructor, rawJetsNicknamedDragons}

\* the expansion names register is called with in the registry specification:
\* a catalog key and a name the catalog does not hold
RegistryNames == {sDragons, sBears}

\* the rosters the resolver is run on
ResolveRosters ==
    {<<rawPatriots, rawJets>>, <<rawJets, rawPatriotsAsSnowhawks>>}

\* the Bears in an export that numbers the NFC North below the AFC East
rawBearsDivisionZero == [rawBears EXCEPT !.divisionId = 0]

\* the rosters the display order is asked for
DisplayRosters ==
    {<<rawPatriots, rawBears, rawJets>>, <<rawPatriots, rawBearsDivisionZero, rawJets>>}

\* the texts the resolver is asked for
TeamReferences == {sDragons, sdragons, sDRAGONS, sJets, sne, sNE, shawks, szz, sYJ, sdra}

Users == 1..MaxUsers

\* the eight divisions of the league, by divisionId
DivisionNames ==
    <<sAFCEast, sAFCNorth, sAFCSouth, sAFCWest, sNFCEast, sNFCNorth, sNFCSouth, sNFCWest>>

\* the divisions an export can name: the eight and one more
ExportedDivisionNames == Append(DivisionNames, sAFCCentral)

\* the division a team of the league starts in
homeDivision(teamId) == ((teamId - 1) \div TeamsPerDivision) + 1

\* the record of a team of the league, reduced to what division integrity reads
leagueTeam(teamId, divisionId) ==
    [teamId |-> teamId, divName |-> ExportedDivisionNames[divisionId], divisionId |-> divisionId]

\* the league exported division by division
leagueByDivision ==
    [i \in 1..LeagueSize |-> leagueTeam(i, homeDivision(i))]

\* the league exported with the divisions interleaved
leagueInterleaved ==
    [i \in 1..LeagueSize |->
        LET teamId == ((i - 1) % Len(DivisionNames)) * TeamsPerDivision
                          + ((i - 1) \div Len(DivisionNames)) + 1
        IN leagueTeam(teamId, homeDivision(teamId))]

\* the 32-team rosters evenly split into 8 divisions of 4
HealthyRosters == {leagueByDivision, leagueInterleaved}

\* the positions of the teams that play outside their home division
realigned(teams) ==
    {i \in DOMAIN teams : teams[i].divisionId # homeDivision(teams[i].teamId)}

\* the league exported division by division, with the full records of its first two teams
exportLeague(first, second) ==
    [i \in 1..LeagueSize |->
        IF i = 1 THEN first ELSE IF i = 2 THEN second ELSE leagueTeam(i, homeDivision(i))]

\* the exports processEnhancedTeamData is given: unsuccessful, without a list, with
\* an empty list, healthy without and with an expansion team, with a realigned
\* expansion team, with two teams only, and with one teamId twice
TeamExports ==
    {[success |-> FALSE, leagueTeamInfoList |-> exportLeague(rawPatriots, rawJetsAsDragons)],
     [success |-> TRUE],
     [success |-> TRUE, leagueTeamInfoList |-> <<>>],
     [success |-> TRUE, leagueTeamInfoList |-> exportLeague(rawPatriots, rawJets)],
     [success |-> TRUE, leagueTeamInfoList |-> exportLeague(rawPatriots, rawJetsAsDragons)],
     [success |-> TRUE, leagueTeamInfoList |-> exportLeague(rawPatriotsAsSnowhawks, rawJets)],
     [success |-> TRUE, leagueTeamInfoList |-> <<rawPatriots, rawJetsAsDragons>>],
     [success |-> TRUE, leagueTeamInfoList |-> exportLeague(rawPatriots, rawPatriots)]}

----------------------------------------------------------------------------
(* The operations *)

NoUsers == {}

InitRegistry ==
    /\ expansionTeamMappings = <<>>
    /\ enhancedTeams = <<>>
    /\ teamMap = <<>>
    /\ lastCall = [op |-> "none"]

InitSim ==
    /\ homeUsers = NoUsers
    /\ awayUsers = NoUsers
    /\ simResult = "NOT_CLASSIFIED"

Init ==
    /\ InitRegistry
    /\ InitSim
    /\ originalTeams = <<rawPatriots, rawJets>>

InitResolve ==
    /\ InitRegistry
    /\ InitSim
    /\ originalTeams \in ResolveRosters

simVars == <<homeUsers, awayUsers, simResult>>

listVars == <<enhancedTeams, teamMap>>

registryVars == <<expansionTeamMappings, originalTeams, enhancedTeams, teamMap>>

RegisterExpansionTeam(teamId, expansionName, originalTeamName, divisionId, conferenceId) ==
    /\ expansionTeamMappings' =
           registerExpansionTeam(expansionTeamMappings, teamId, expansionName,
                                 originalTeamName, divisionId, conferenceId)
    /\ lastCall' = [op |-> "registerExpansionTeam", teamId |-> teamId,
                    expansionName |-> expansionName, originalTeamName |-> originalTeamName,
                    divisionId |-> divisionId, conferenceId |-> conferenceId,
                    replaced |-> isExpansionTeam(expansionTeamMappings, teamId)]
    /\ UNCHANGED <<originalTeams, listVars, simVars>>

RemoveExpansionTeamMapping(teamId) ==
    /\ expansionTeamMappings' = removeExpansionTeamMapping(expansionTeamMappings, teamId)
    /\ lastCall' = [op |-> "removeExpansionTeamMapping", teamId |-> teamId,
                    deleted |-> isExpansionTeam(expansionTeamMappings, teamId)]
    /\ UNCHANGED <<originalTeams, listVars, simVars>>

AutoDetectExpansionTeams ==
    /\ expansionTeamMappings' = autoDetectExpansionTeams(expansionTeamMappings, originalTeams)
    /\ lastCall' = [op |-> "autoDetectExpansionTeams", teams |-> originalTeams,
                    registered |-> DOMAIN expansionTeamMappings' \ DOMAIN expansionTeamMappings]
    /\ UNCHANGED <<originalTeams, listVars, simVars>>

\* enhanceTeamData(originalTeams): autoDetect, then the map over the teams
EnhanceTeamData ==
    /\ expansionTeamMappings' = autoDetectExpansionTeams(expansionTeamMappings, originalTeams)
    /\ originalTeams' = teamsAfterEnhance(expansionTeamMappings', originalTeams)
    /\ lastCall' = [op |-> "enhanceTeamData", teams |-> originalTeams,
                    result |-> enhancedTeamData(expansionTeamMappings', originalTeams),
                    afterRemovalOf |-> IF lastCall.op = "removeExpansionTeamMapping"
                                          /\ lastCall.deleted
                                       THEN {lastCall.teamId} ELSE {}]
    /\ UNCHANGED <<listVars, simVars>>

\* enhanceTeamEvents(originalTeams): enhanceTeamData, then the map to events
EnhanceTeamEvents ==
    /\ expansionTeamMappings' = autoDetectExpansionTeams(expansionTeamMappings, originalTeams)
    /\ originalTeams' = teamsAfterEnhance(expansionTeamMappings', originalTeams)
    /\ lastCall' = [op |-> "enhanceTeamEvents", teams |-> originalTeams,
                    result |-> enhanceTeamEvents(expansionTeamMappings', originalTeams)]
    /\ UNCHANGED <<listVars, simVars>>

\* a later export replaces the stored record of one team
ImportTeam(i, team) ==
    /\ team.teamId = originalTeams[i].teamId
    /\ team # originalTeams[i]
    /\ originalTeams' = [originalTeams EXCEPT ![i] = team]
    /\ lastCall' = [op |-> "importTeam"]
    /\ UNCHANGED <<expansionTeamMappings, listVars, simVars>>

InitDisplay ==
    /\ InitRegistry
    /\ InitSim
    /\ originalTeams \in DisplayRosters

InitDivisions ==
    /\ InitRegistry
    /\ InitSim
    /\ originalTeams \in HealthyRosters

\* a later export carries one team in another division; the teams that change
\* division are the first of each home division
RealignTeam(i, divisionId) ==
    /\ Len(originalTeams) = LeagueSize
    /\ originalTeams[i].teamId % TeamsPerDivision = 1
    /\ originalTeams[i].divisionId # divisionId
    /\ originalTeams' = [originalTeams EXCEPT ![i] = leagueTeam(@.teamId, divisionId)]
    /\ Cardinality(realigned(originalTeams')) <= MaxRealigned
    /\ lastCall' = [op |-> "importTeam"]
    /\ UNCHANGED <<expansionTeamMappings, listVars, simVars>>

\* a later export of a healthy league lacks one team
DropTeam(i) ==
    /\ originalTeams \in HealthyRosters
    /\ originalTeams' = SubSeq(originalTeams, 1, i - 1)
                            \o SubSeq(originalTeams, i + 1, Len(originalTeams))
    /\ lastCall' = [op |-> "importTeam"]
    /\ UNCHANGED <<expansionTeamMappings, listVars, simVars>>

\* a later export of a healthy league lacks one whole division
DropDivision(divisionId) ==
    /\ originalTeams \in HealthyRosters
    /\ LET stays(team) == team.divisionId # divisionId
       IN originalTeams' = SelectSeq(originalTeams, stays)
    /\ lastCall' = [op |-> "importTeam"]
    /\ UNCHANGED <<expansionTeamMappings, listVars, simVars>>

\* a later export of a healthy league carries one more division of four teams
AddDivision ==
    /\ originalTeams \in HealthyRosters
    /\ originalTeams' = originalTeams \o
           [k \in 1..TeamsPerDivision |->
               leagueTeam(LeagueSize + k, Len(ExportedDivisionNames))]
    /\ lastCall' = [op |-> "importTeam"]
    /\ UNCHANGED <<expansionTeamMappings, listVars, simVars>>

\* a later export carries the healthy league again
RestoreLeague(teams) ==
    /\ originalTeams # teams
    /\ originalTeams' = teams
    /\ lastCall' = [op |-> "importTeam"]
    /\ UNCHANGED <<expansionTeamMappings, listVars, simVars>>

\* validateDivisionIntegrity(teams) on the roster held
ValidateDivisionIntegrity ==
    /\ lastCall' = [op |-> "validateDivisionIntegrity"]
                       @@ validateDivisionIntegrity(originalTeams)
    /\ UNCHANGED <<registryVars, simVars>>

\* createEnhancedTeamList(originalTeamList)
CreateEnhancedTeamList ==
    /\ expansionTeamMappings' = autoDetectExpansionTeams(expansionTeamMappings, originalTeams)
    /\ originalTeams' = teamsAfterEnhance(expansionTeamMappings', originalTeams)
    /\ enhancedTeams' = enhancedTeamData(expansionTeamMappings', originalTeams)
    /\ teamMap' = createTeamMap(enhancedTeams')
    /\ lastCall' = [op |-> "createEnhancedTeamList"]
    /\ UNCHANGED simVars

\* validateEnhancedTeamReference(teamReference, teamList), on the list created last;
\* getEnhancedLatestTeams sorts the captured array in place
ValidateEnhancedTeamReference(teamReference) ==
    /\ enhancedTeams # <<>>
    /\ enhancedTeams' = sortTeamsForDivisionDisplay(expansionTeamMappings, enhancedTeams)
    /\ lastCall' = [op |-> "validateEnhancedTeamReference",
                    teamReference |-> teamReference,
                    result |-> validateEnhancedTeamReference(expansionTeamMappings,
                                   enhancedTeams', teamMap, originalTeams, teamReference)]
    /\ UNCHANGED <<expansionTeamMappings, originalTeams, teamMap, simVars>>

\* getEnhancedLatestTeams() of the list created last: the captured array is
\* sorted in place and returned
GetEnhancedLatestTeams ==
    /\ enhancedTeams # <<>>
    /\ enhancedTeams' = sortTeamsForDivisionDisplay(expansionTeamMappings, enhancedTeams)
    /\ lastCall' = [op |-> "getEnhancedLatestTeams", result |-> enhancedTeams']
    /\ UNCHANGED <<expansionTeamMappings, originalTeams, teamMap, simVars>>

\* findTeamByName(originalTeams, searchName)
FindTeamByName(searchName) ==
    /\ expansionTeamMappings' = autoDetectExpansionTeams(expansionTeamMappings, originalTeams)
    /\ originalTeams' = teamsAfterEnhance(expansionTeamMappings', originalTeams)
    /\ lastCall' = [op |-> "findTeamByName", searchName |-> searchName,
                    result |-> findTeamByName(expansionTeamMappings', originalTeams, searchName)]
    /\ UNCHANGED <<listVars, simVars>>

\* a user adds or withdraws a reaction for the home side
ReactHome(user) ==
    /\ homeUsers' = IF user \in homeUsers THEN homeUsers \ {user} ELSE homeUsers \cup {user}
    /\ lastCall' = [op |-> "react"]
    /\ UNCHANGED <<registryVars, awayUsers, simResult>>

\* a user adds or withdraws a reaction for the away side
ReactAway(user) ==
    /\ awayUsers' = IF user \in awayUsers THEN awayUsers \ {user} ELSE awayUsers \cup {user}
    /\ lastCall' = [op |-> "react"]
    /\ UNCHANGED <<registryVars, homeUsers, simResult>>

\* the classifier runs on the reactions collected so far
Classify ==
    /\ simResult' = classify(homeUsers, awayUsers)
    /\ lastCall' = [op |-> "classify"]
    /\ UNCHANGED <<registryVars, homeUsers, awayUsers>>

\* the scoreboard labels the sim stored for a game with the result classified last
CreateSimMessage ==
    /\ simResult # "NOT_CLASSIFIED"
    /\ lastCall' = [op |-> "createSimMessage", sim |-> [result |-> simResult],
                    result |-> createSimMessage([result |-> simResult])]
    /\ UNCHANGED <<registryVars, simVars>>

\* validateEnhancedTeamExport(teamExport)
ValidateEnhancedTeamExport(teamExport) ==
    /\ expansionTeamMappings' = registryAfterValidate(expansionTeamMappings, teamExport)
    /\ lastCall' = [op |-> "validateEnhancedTeamExport", teamExport |-> teamExport,
                    result |-> validateEnhancedTeamExport(expansionTeamMappings, teamExport),
                    before |-> expansionTeamMappings]
    /\ UNCHANGED <<originalTeams, listVars, simVars>>

\* processEnhancedTeamData(leagueId, teamExport): the validation, then for a valid
\* export enhanceTeamExport and enhanceTeamEvents, each on the registry the call
\* before it left; the events handed to MaddenDB.appendEvents are kept in the call
ProcessEnhancedTeamData(teamExport) ==
    /\ \E validation \in {validateEnhancedTeamExport(expansionTeamMappings, teamExport)},
          validated \in {registryAfterValidate(expansionTeamMappings, teamExport)} :
            IF ~validation.valid
            THEN /\ expansionTeamMappings' = validated
                 /\ lastCall' = [op |-> "processEnhancedTeamData", teamExport |-> teamExport,
                                 thrown |-> TRUE, issues |-> validation.issues,
                                 stored |-> <<>>, before |-> expansionTeamMappings]
            ELSE \E enhancedExport \in {enhanceTeamExport(validated, teamExport)},
                    enhanced \in {registryAfterEnhanceExport(validated, teamExport)} :
                     \E registry \in {autoDetectExpansionTeams(
                                          enhanced, enhancedExport.leagueTeamInfoList)} :
                         /\ expansionTeamMappings' = registry
                         /\ lastCall' = [op |-> "processEnhancedTeamData",
                                         teamExport |-> teamExport,
                                         thrown |-> FALSE, issues |-> validation.issues,
                                         stored |-> enhanceTeamEvents(
                                                        registry,
                                                        enhancedExport.leagueTeamInfoList),
                                         before |-> expansionTeamMappings]
    /\ UNCHANGED <<originalTeams, listVars, simVars>>

----------------------------------------------------------------------------
(* The specifications *)

TeamIds == teamIdsOf(originalTeams)

teamWithId(teamId) == getTeamForId(originalTeams, teamId)

\* the registry and the enrichment of a roster that later exports change
Next ==
    \/ \E teamId \in TeamIds, expansionName \in RegisteredNames,
          divisionId \in 0..MaxDivisionId, conferenceId \in 0..MaxConferenceId :
            RegisterExpansionTeam(teamId, expansionName, teamWithId(teamId).nickName,
                                  divisionId, conferenceId)
    \/ \E teamId \in TeamIds : RemoveExpansionTeamMapping(teamId)
    \/ AutoDetectExpansionTeams
    \/ EnhanceTeamData
    \/ \E i \in 1..Len(originalTeams), team \in RawTeams : ImportTeam(i, team)

Spec == Init /\ [][Next]_vars

\* the resolver on an enhanced team list, with registrations before and after its creation
NextResolve ==
    \/ \E teamId \in TeamIds, expansionName \in RegisteredNames :
            RegisterExpansionTeam(teamId, expansionName, teamWithId(teamId).nickName,
                                  teamWithId(teamId).divisionId, teamWithId(teamId).conferenceId)
    \/ \E teamId \in TeamIds : RemoveExpansionTeamMapping(teamId)
    \/ CreateEnhancedTeamList
    \/ \E teamReference \in TeamReferences : ValidateEnhancedTeamReference(teamReference)
    \/ \E searchName \in TeamReferences : FindTeamByName(searchName)

\* the registry under explicit calls, detection and enrichment, while exports change the roster
NextRegistry ==
    \/ \E teamId \in TeamIds, expansionName \in RegistryNames :
            RegisterExpansionTeam(teamId, expansionName, teamWithId(teamId).nickName,
                                  teamWithId(teamId).divisionId, teamWithId(teamId).conferenceId)
    \/ \E teamId \in TeamIds : RemoveExpansionTeamMapping(teamId)
    \/ AutoDetectExpansionTeams
    \/ EnhanceTeamData
    \/ EnhanceTeamEvents
    \/ \E i \in 1..Len(originalTeams), team \in ExportedTeams : ImportTeam(i, team)

SpecRegistry == Init /\ [][NextRegistry]_vars

SpecResolve == InitResolve /\ [][NextResolve]_vars

\* the display order of an enhanced team list, with registrations before and after its creation
NextDisplay ==
    \/ \E teamId \in TeamIds, expansionName \in RegisteredNames :
            RegisterExpansionTeam(teamId, expansionName, teamWithId(teamId).nickName,
                                  teamWithId(teamId).divisionId, teamWithId(teamId).conferenceId)
    \/ \E teamId \in TeamIds : RemoveExpansionTeamMapping(teamId)
    \/ CreateEnhancedTeamList
    \/ GetEnhancedLatestTeams

SpecDisplay == InitDisplay /\ [][NextDisplay]_vars

\* division integrity of a league roster that later exports change
NextDivisions ==
    \/ \E i \in 1..Len(originalTeams), divisionId \in DOMAIN ExportedDivisionNames :
            RealignTeam(i, divisionId)
    \/ \E i \in 1..Len(originalTeams) : DropTeam(i)
    \/ \E divisionId \in DOMAIN DivisionNames : DropDivision(divisionId)
    \/ AddDivision
    \/ \E teams \in HealthyRosters : RestoreLeague(teams)
    \/ ValidateDivisionIntegrity

SpecDivisions == InitDivisions /\ [][NextDivisions]_vars

\* the classifier on every pair of reaction sets
NextClassify ==
    \/ \E user \in Users : ReactHome(user)
    \/ \E user \in Users : ReactAway(user)
    \/ Classify
    \/ CreateSimMessage

SpecClassify == Init /\ [][NextClassify]_vars

\* exports arriving while teams are registered and removed by command
NextExport ==
    \/ \E teamExport \in TeamExports : ValidateEnhancedTeamExport(teamExport)
    \/ \E teamExport \in TeamExports : ProcessEnhancedTeamData(teamExport)
    \/ \E teamId \in TeamIds, expansionName \in RegistryNames :
            RegisterExpansionTeam(teamId, expansionName, teamWithId(teamId).nickName,
                                  teamWithId(teamId).divisionId, teamWithId(teamId).conferenceId)
    \/ \E teamId \in TeamIds : RemoveExpansionTeamMapping(teamId)

SpecExport == Init /\ [][NextExport]_vars

----------------------------------------------------------------------------
(* The classifier: claims *)

Classified == lastCall.op = "classify"

\* C1: classify returns FORCE_WIN_HOME when only the home set is non-empty,
\* FORCE_WIN_AWAY when only the away set is non-empty, FAIR_SIM when both are
\* non-empty and NONE when both are empty, for every pair of sets.
C1_ClassifyTable ==
    Classified =>
        /\ (homeUsers # {} /\ awayUsers = {}) => simResult = "FORCE_WIN_HOME"
        /\ (homeUsers = {} /\ awayUsers # {}) => simResult = "FORCE_WIN_AWAY"
        /\ (homeUsers # {} /\ awayUsers # {}) => simResult = "FAIR_SIM"
        /\ (homeUsers = {} /\ awayUsers = {}) => simResult = "NONE"

\* the classifier has run on a pair with several reactors on both sides
C1_Witness ==
    /\ Classified
    /\ Cardinality(homeUsers) > 1
    /\ Cardinality(awayUsers) > 1
    /\ simResult = "FAIR_SIM"

----------------------------------------------------------------------------
(* The resolver: claims *)

Validated == lastCall.op = "validateEnhancedTeamReference"

\* the search records the last validateEnhancedTeamReference call looked at
SearchIndexNow == createEnhancedTeamSearchIndex(expansionTeamMappings, enhancedTeams)

\* the teams whose overlaid displayName, nickName or abbrName equals the text, case ignored
ExactIds(teamReference) ==
    {id \in DOMAIN SearchIndexNow :
        \E name \in {SearchIndexNow[id].displayName, SearchIndexNow[id].nickName,
                     SearchIndexNow[id].abbrName} :
            toLowerCase(name) = toLowerCase(teamReference)}

\* the teams whose overlaid displayName, nickName or cityName contains the text, case ignored
PartialIds(teamReference) ==
    {id \in DOMAIN SearchIndexNow :
        \E name \in {SearchIndexNow[id].displayName, SearchIndexNow[id].nickName,
                     SearchIndexNow[id].cityName} :
            includes(toLowerCase(name), toLowerCase(teamReference))}

\* C2: when the exact pass finds no team and the partial pass finds two or more,
\* the result is an ambiguity error that lists the display name of every
\* partially matching team, and no team is returned.
C2_AmbiguityListsEveryCandidate ==
    (Validated /\ ExactIds(lastCall.teamReference) = {}
               /\ Cardinality(PartialIds(lastCall.teamReference)) >= 2) =>
        /\ lastCall.result.valid = FALSE
        /\ "team" \notin DOMAIN lastCall.result
        /\ lastCall.result.error.message = "Multiple teams found"
        /\ \A id \in PartialIds(lastCall.teamReference) :
              \E i \in DOMAIN lastCall.result.error.teamNames :
                  lastCall.result.error.teamNames[i] = SearchIndexNow[id].displayName

\* "hawks" was asked for while one team is the Snowhawks and another the Night Hawks
C2_Witness ==
    /\ Validated
    /\ lastCall.teamReference = shawks
    /\ ExactIds(shawks) = {}
    /\ {SearchIndexNow[id].displayName : id \in PartialIds(shawks)} = {sSnowhawks, sNightHawks}
    /\ lastCall.result.valid = FALSE

\* the teams matching in the pass that decided the last validateEnhancedTeamReference call
DecidingIds(teamReference) ==
    IF ExactIds(teamReference) # {} THEN ExactIds(teamReference) ELSE PartialIds(teamReference)

Found == lastCall.op = "findTeamByName"

\* the enriched roster the last findTeamByName call searched
EnhancedNow == enhancedTeamData(expansionTeamMappings, originalTeams)

FindExact(searchName) ==
    {i \in DOMAIN EnhancedNow :
        \E name \in {EnhancedNow[i].displayName, EnhancedNow[i].nickName, EnhancedNow[i].abbrName} :
            toLowerCase(name) = toLowerCase(searchName)}

FindPartial(searchName) ==
    {i \in DOMAIN EnhancedNow :
        \E name \in {EnhancedNow[i].displayName, EnhancedNow[i].nickName, EnhancedNow[i].cityName} :
            includes(toLowerCase(name), toLowerCase(searchName))}

FindDeciding(searchName) ==
    IF FindExact(searchName) # {} THEN FindExact(searchName) ELSE FindPartial(searchName)

\* C3: whenever a name lookup (validateEnhancedTeamReference, findTeamByName)
\* returns a team, that team is the only team matching the query in the pass
\* that produced the result; the first of several candidates is never picked.
C3_NeverPicksFirstOfSeveral ==
    /\ (Validated /\ lastCall.result.valid) =>
           DecidingIds(lastCall.teamReference) = {lastCall.result.team.teamId}
    /\ (Found /\ lastCall.result # undefined) =>
           \E i \in DOMAIN EnhancedNow :
               /\ FindDeciding(lastCall.searchName) = {i}
               /\ EnhancedNow[i] = lastCall.result

\* C4: if exactly one team matches the query for equality on overlaid
\* displayName, nickName or abbrName, resolve returns that team however many
\* teams contain the query; the partial pass decides only when the exact pass
\* found no team.
C4_ExactMatchWins ==
    Validated =>
        /\ \A id \in DOMAIN SearchIndexNow :
              ExactIds(lastCall.teamReference) = {id} =>
                  /\ lastCall.result.valid
                  /\ lastCall.result.team.teamId = id
        /\ ExactIds(lastCall.teamReference) # {} =>
              /\ lastCall.result.valid
              /\ lastCall.result.team.teamId \in ExactIds(lastCall.teamReference)

\* "ne" equals one team's abbreviation and is contained in two teams' city names
C4_Witness ==
    /\ Validated
    /\ lastCall.teamReference = sne
    /\ Cardinality(ExactIds(sne)) = 1
    /\ Cardinality(PartialIds(sne)) >= 2
    /\ lastCall.result.valid
    /\ lastCall.result.team.teamId \in ExactIds(sne)

\* the team of the roster as it is exported, before any overlay
RawTeam(id) == teamWithId(id)

\* the text matches another team than id: in a pass of the resolver, or in its raw names
MatchesAnotherTeam(id, teamReference) ==
    \E other \in DOMAIN SearchIndexNow \ {id} :
        \/ other \in ExactIds(teamReference)
        \/ other \in PartialIds(teamReference)
        \/ includes(toLowerCase(RawTeam(other).displayName), toLowerCase(teamReference))
        \/ includes(toLowerCase(RawTeam(other).nickName), toLowerCase(teamReference))

\* C5: for a team explicitly registered to an expansion name different from its
\* raw displayName/nickName, resolve called with the team's pre-overlay display
\* name or nick name (matching no other team) succeeds and returns that team.
C5_OriginalNameResolves ==
    Validated =>
        \A id \in DOMAIN SearchIndexNow \cap DOMAIN expansionTeamMappings :
            (/\ expansionTeamMappings[id].expansionName
                    \notin {RawTeam(id).displayName, RawTeam(id).nickName}
             /\ lastCall.teamReference \in {RawTeam(id).displayName, RawTeam(id).nickName}
             /\ ~MatchesAnotherTeam(id, lastCall.teamReference)) =>
                /\ lastCall.result.valid
                /\ lastCall.result.team.teamId = id

\* two texts that differ at most in the case of their letters
SameIgnoringCase(a, b) ==
    /\ Len(a) = Len(b)
    /\ \A i \in 1..Len(a) :
          \/ a[i] = b[i]
          \/ a[i] \in DOMAIN lowerOf /\ lowerOf[a[i]] = b[i]
          \/ b[i] \in DOMAIN lowerOf /\ lowerOf[b[i]] = a[i]

\* what a caller sees of a result: the team, or the kind of error and its candidates
\* (the error text quotes the query as it was typed)
Outcome(result) ==
    IF result.valid THEN [valid |-> TRUE, team |-> result.team]
    ELSE [valid |-> FALSE, message |-> result.error.message,
          teamNames |-> IF "teamNames" \in DOMAIN result.error
                        THEN result.error.teamNames ELSE <<>>]

\* what validateEnhancedTeamReference returns for another text on the same list and registry
ResultFor(teamReference) ==
    validateEnhancedTeamReference(expansionTeamMappings, enhancedTeams, teamMap,
                                  originalTeams, teamReference)

\* two queries differing only in case produce the same outcome
SameOutcomeInAnyCase ==
    \A other \in TeamReferences :
        SameIgnoringCase(other, lastCall.teamReference) =>
            Outcome(ResultFor(other)) = Outcome(lastCall.result)

\* the teams of the list that are overlaid to a catalog name
OverlaidIds ==
    {id \in DOMAIN SearchIndexNow \cap DOMAIN expansionTeamMappings :
        expansionTeamMappings[id].expansionName \in DOMAIN EXPANSION_TEAMS}

\* C6 as stated: for a team overlaid to a catalog name, resolving the name in
\* any letter case returns that same team, and two queries differing only in
\* case always produce the same outcome.
C6_CaseInsensitiveForEveryOverlaidTeam ==
    Validated =>
        /\ \A id \in OverlaidIds :
              SameIgnoringCase(lastCall.teamReference, expansionTeamMappings[id].expansionName) =>
                  /\ lastCall.result.valid
                  /\ lastCall.result.team.teamId = id
        /\ SameOutcomeInAnyCase

\* C6 as amended: for a team overlaid to a catalog name that no other team
\* matches in the exact pass, resolving the name in any letter case returns that
\* team, and two queries differing only in case always produce the same outcome
\* (the same team, or the same kind of error with the same candidates).
C6_CaseInsensitive ==
    Validated =>
        /\ \A id \in OverlaidIds :
              (/\ SameIgnoringCase(lastCall.teamReference, expansionTeamMappings[id].expansionName)
               /\ ExactIds(lastCall.teamReference) = {id}) =>
                  /\ lastCall.result.valid
                  /\ lastCall.result.team.teamId = id
        /\ SameOutcomeInAnyCase

\* "DRAGONS" was asked for and the one team overlaid to "Dragons" came back
C6_Witness ==
    /\ Validated
    /\ lastCall.teamReference = sDRAGONS
    /\ \E id \in OverlaidIds :
          /\ expansionTeamMappings[id].expansionName = sDragons
          /\ ExactIds(sDRAGONS) = {id}
          /\ lastCall.result.valid
          /\ lastCall.result.team.teamId = id

\* C7: when neither the exact pass nor the partial pass matches any team,
\* resolve returns a not-found error that carries the query as typed, and no team.
C7_NotFoundCarriesQuery ==
    (Validated /\ ExactIds(lastCall.teamReference) = {}
               /\ PartialIds(lastCall.teamReference) = {}) =>
        /\ lastCall.result.valid = FALSE
        /\ "team" \notin DOMAIN lastCall.result
        /\ lastCall.result.error.message = "No team found"
        /\ lastCall.result.error.teamReference = lastCall.teamReference

\* "Jets" was asked for after the Jets were registered as another team: nothing matches
C7_Witness ==
    /\ Validated
    /\ lastCall.teamReference = sJets
    /\ ExactIds(sJets) = {}
    /\ PartialIds(sJets) = {}
    /\ lastCall.result.valid = FALSE
    /\ lastCall.result.error.teamReference = sJets

----------------------------------------------------------------------------
(* Enrichment: claims *)

Enhanced == lastCall.op = "enhanceTeamData"

\* C8: enhanceTeamData never mutates its input: after the call the input
\* collection and every team record in it are what they were before the call.
C8_InputNotMutated ==
    Enhanced => originalTeams = lastCall.teams

\* an enhanceTeamData call has overlaid a team whose exported name is another one
C8_Witness ==
    /\ Enhanced
    /\ originalTeams = lastCall.teams
    /\ \E i \in DOMAIN lastCall.result :
          /\ lastCall.result[i].isExpansionTeam
          /\ lastCall.result[i].displayName # lastCall.teams[i].displayName

\* C9: in the output of enhanceTeamData a team with a mapping has isExpansionTeam
\* true, displayName and nickName equal to the mapping's expansionName and
\* originalDisplayName/originalNickName equal to the input's displayName/nickName;
\* a team without a mapping is the input record with isExpansionTeam false added.
C9_OverlayRule ==
    Enhanced =>
        /\ Len(lastCall.result) = Len(lastCall.teams)
        /\ \A i \in DOMAIN lastCall.teams :
              LET in == lastCall.teams[i]
                  out == lastCall.result[i]
              IN IF in.teamId \in DOMAIN expansionTeamMappings
                 THEN /\ out.isExpansionTeam = TRUE
                      /\ out.displayName = expansionTeamMappings[in.teamId].expansionName
                      /\ out.nickName = expansionTeamMappings[in.teamId].expansionName
                      /\ out.originalDisplayName = in.displayName
                      /\ out.originalNickName = in.nickName
                 ELSE /\ DOMAIN out = DOMAIN in \cup {"isExpansionTeam"}
                      /\ out.isExpansionTeam = FALSE
                      /\ \A field \in DOMAIN in \ {"isExpansionTeam"} : out[field] = in[field]

\* one call has returned a team without a mapping next to an overlaid team
\* whose exported names were kept as the original ones
C9_Witness ==
    /\ Enhanced
    /\ \E i, j \in DOMAIN lastCall.result :
          /\ lastCall.result[i].isExpansionTeam
          /\ lastCall.result[i].originalDisplayName # lastCall.result[i].displayName
          /\ ~lastCall.result[j].isExpansionTeam

\* C10: the overlay never alters a team's identity: teamId, divisionId,
\* conferenceId, cityName and abbrName of every output record equal those of the
\* input record, whatever divisionId/conferenceId the mapping stores.
C10_IdentityKept ==
    Enhanced =>
        \A i \in DOMAIN lastCall.teams :
            \A field \in {"teamId", "divisionId", "conferenceId", "cityName", "abbrName"} :
                lastCall.result[i][field] = lastCall.teams[i][field]

\* a team was overlaid whose mapping stores another division and another conference
C10_Witness ==
    /\ Enhanced
    /\ \E i \in DOMAIN lastCall.teams :
          LET id == lastCall.teams[i].teamId
          IN /\ id \in DOMAIN expansionTeamMappings
             /\ expansionTeamMappings[id].divisionId # lastCall.teams[i].divisionId
             /\ expansionTeamMappings[id].conferenceId # lastCall.teams[i].conferenceId
             /\ lastCall.result[i].isExpansionTeam
             /\ lastCall.result[i].divisionId = lastCall.teams[i].divisionId

----------------------------------------------------------------------------
(* The registry: claims *)

\* the logo id the overlay is to show for a team record, by the three cases
ExpectedLogoId(team) ==
    IF team.teamId \notin DOMAIN expansionTeamMappings
    THEN team.logoId
    ELSE IF expansionTeamMappings[team.teamId].expansionName \in DOMAIN EXPANSION_TEAMS
         THEN EXPANSION_TEAMS[expansionTeamMappings[team.teamId].expansionName].logoId
         ELSE team.logoId

\* C11: the resolved logo id of a team whose mapping's expansionName has no
\* catalog entry is the team's original logoId; of a team whose expansionName is
\* a catalog key it is that catalog entry's logoId; of an unmapped team it is the
\* original logoId. This holds for getTeamLogoId in every state and for the logoId
\* of every record enhanceTeamData returns.
C11_LogoResolution ==
    /\ \A i \in DOMAIN originalTeams :
          getTeamLogoId(expansionTeamMappings, originalTeams[i].teamId, originalTeams[i].logoId)
              = ExpectedLogoId(originalTeams[i])
    /\ Enhanced =>
          \A i \in DOMAIN lastCall.teams :
              lastCall.result[i].logoId = ExpectedLogoId(lastCall.teams[i])

\* one enhanceTeamData call has returned a team mapped to a name without a catalog
\* entry, with its original logo, next to a team mapped to a catalog key, with the
\* catalog's logo
C11_Witness ==
    /\ Enhanced
    /\ \E i, j \in DOMAIN lastCall.teams :
          LET a == lastCall.teams[i]
              b == lastCall.teams[j]
          IN /\ a.teamId \in DOMAIN expansionTeamMappings
             /\ expansionTeamMappings[a.teamId].expansionName \notin DOMAIN EXPANSION_TEAMS
             /\ lastCall.result[i].isExpansionTeam
             /\ lastCall.result[i].logoId = a.logoId
             /\ b.teamId \in DOMAIN expansionTeamMappings
             /\ expansionTeamMappings[b.teamId].expansionName \in DOMAIN EXPANSION_TEAMS
             /\ lastCall.result[j].logoId # b.logoId
             /\ lastCall.result[j].logoId
                    = EXPANSION_TEAMS[expansionTeamMappings[b.teamId].expansionName].logoId

\* the mapping a register call is to leave for its teamId
MappingOfCall(call) ==
    [expansionName |-> call.expansionName,
     originalTeamId |-> call.teamId,
     originalTeamName |-> call.originalTeamName,
     divisionId |-> call.divisionId,
     conferenceId |-> call.conferenceId]

\* every teamId but the given one has after the step the mapping, or the absence
\* of a mapping, it had before
OthersUnchanged(teamId) ==
    \A other \in (DOMAIN expansionTeamMappings \cup DOMAIN expansionTeamMappings') \ {teamId} :
        getExpansionTeamMapping(expansionTeamMappings', other)
            = getExpansionTeamMapping(expansionTeamMappings, other)

\* C12: register is last-write-wins: right after every register call, whether
\* the teamId had a mapping or not, get(teamId) returns exactly the values of that
\* call, and the mappings of all other teamIds are what they were before it.
C12_LastWriteWins ==
    [][lastCall'.op = "registerExpansionTeam" =>
          /\ getExpansionTeamMapping(expansionTeamMappings', lastCall'.teamId)
                 = MappingOfCall(lastCall')
          /\ OthersUnchanged(lastCall'.teamId)]_vars

\* a register call has replaced the mapping of a team while another team holds a mapping
C12_Witness ==
    /\ lastCall.op = "registerExpansionTeam"
    /\ lastCall.replaced
    /\ getExpansionTeamMapping(expansionTeamMappings, lastCall.teamId) = MappingOfCall(lastCall)
    /\ \E other \in DOMAIN expansionTeamMappings : other # lastCall.teamId

\* C13: remove never fails: when the teamId has no mapping the registry is
\* unchanged; when it has one, afterwards isRegistered(teamId) is false and
\* get(teamId) is absent; in both cases the mappings of all other teamIds are
\* what they were before the call.
C13_RemoveIsTotal ==
    [][lastCall'.op = "removeExpansionTeamMapping" =>
          /\ ~isExpansionTeam(expansionTeamMappings, lastCall'.teamId)
                 => expansionTeamMappings' = expansionTeamMappings
          /\ ~isExpansionTeam(expansionTeamMappings', lastCall'.teamId)
          /\ getExpansionTeamMapping(expansionTeamMappings', lastCall'.teamId) = undefined
          /\ OthersUnchanged(lastCall'.teamId)]_vars

\* a remove call has deleted the mapping of one team while another team keeps its mapping
C13_Witness ==
    /\ lastCall.op = "removeExpansionTeamMapping"
    /\ lastCall.deleted
    /\ ~isExpansionTeam(expansionTeamMappings, lastCall.teamId)
    /\ \E other \in DOMAIN expansionTeamMappings : other # lastCall.teamId

\* C14: in every state reachable by register, remove, autoDetect and enrich
\* calls, the expansionName of every mapping held in the registry is a Catalog key.
C14_EveryMappingNamesCatalogKey ==
    \A teamId \in DOMAIN expansionTeamMappings :
        expansionTeamMappings[teamId].expansionName \in DOMAIN EXPANSION_TEAMS

AutoDetected == lastCall.op = "autoDetectExpansionTeams"

\* the candidate name of a team: displayName, else nickName, else teamName, the first non-empty
CandidateName(team) ==
    IF "displayName" \in DOMAIN team /\ team.displayName # <<>> THEN team.displayName
    ELSE IF "nickName" \in DOMAIN team /\ team.nickName # <<>> THEN team.nickName
    ELSE IF "teamName" \in DOMAIN team /\ team.teamName # <<>> THEN team.teamName
    ELSE <<>>

\* the teamIds that held a mapping when the last autoDetect call began
RegisteredBeforeDetect == DOMAIN expansionTeamMappings \ lastCall.registered

\* C15: autoDetect registers a team exactly when its candidate name is a Catalog
\* key and the team is not yet registered; the new mapping has the candidate name
\* as expansionName and the team's own current divisionId and conferenceId; a team
\* whose candidate name is not a Catalog key gets no mapping.
C15_DetectsExactlyCatalogNames ==
    AutoDetected =>
        \A i \in DOMAIN lastCall.teams :
            LET team == lastCall.teams[i]
            IN /\ team.teamId \in lastCall.registered
                    <=> /\ CandidateName(team) \in DOMAIN EXPANSION_TEAMS
                        /\ team.teamId \notin RegisteredBeforeDetect
               /\ team.teamId \in lastCall.registered =>
                    /\ expansionTeamMappings[team.teamId].expansionName = CandidateName(team)
                    /\ expansionTeamMappings[team.teamId].divisionId = team.divisionId
                    /\ expansionTeamMappings[team.teamId].conferenceId = team.conferenceId

\* C16: mappings are sticky: the mapping of a registered teamId is changed or
\* cleared only by a register or remove call for that teamId; autoDetect, enrich
\* and a changed roster leave expansionName, originalTeamName, divisionId and
\* conferenceId as they were captured.
C16_MappingsAreSticky ==
    [][\A teamId \in DOMAIN expansionTeamMappings :
          getExpansionTeamMapping(expansionTeamMappings', teamId) # expansionTeamMappings[teamId]
              => /\ lastCall'.op \in {"registerExpansionTeam", "removeExpansionTeamMapping"}
                 /\ lastCall'.teamId = teamId]_vars

\* autoDetect or enrich has run on a roster in which a registered team now carries
\* another catalog name, another division and another conference than its mapping
C16_Witness ==
    /\ AutoDetected \/ Enhanced
    /\ \E i \in DOMAIN lastCall.teams :
          LET team == lastCall.teams[i]
          IN /\ team.teamId \in DOMAIN expansionTeamMappings
             /\ CandidateName(team) \in DOMAIN EXPANSION_TEAMS
             /\ expansionTeamMappings[team.teamId].expansionName # CandidateName(team)
             /\ expansionTeamMappings[team.teamId].divisionId # team.divisionId
             /\ expansionTeamMappings[team.teamId].conferenceId # team.conferenceId

\* C17: autoDetect is idempotent: a second autoDetect call on the same unchanged
\* team list leaves the registry exactly as the first call left it.
C17_AutoDetectIdempotent ==
    AutoDetected /\ originalTeams = lastCall.teams =>
        autoDetectExpansionTeams(expansionTeamMappings, originalTeams) = expansionTeamMappings

\* an autoDetect call has registered two teams of the roster at once
C17_Witness ==
    /\ AutoDetected
    /\ originalTeams = lastCall.teams
    /\ \E a, b \in lastCall.registered : a # b
    /\ autoDetectExpansionTeams(expansionTeamMappings, originalTeams) = expansionTeamMappings

----------------------------------------------------------------------------
(* Division integrity: claims *)

DivisionsValidated == lastCall.op = "validateDivisionIntegrity"

\* the divisions present in the roster held
DivisionsPresent == {originalTeams[i].divisionId : i \in DOMAIN originalTeams}

\* the positions of the members of a division
MembersOf(divisionId) ==
    {i \in DOMAIN originalTeams : originalTeams[i].divisionId = divisionId}

\* the divisions whose member count is not 4
BadDivisions ==
    {divisionId \in DivisionsPresent : Cardinality(MembersOf(divisionId)) # TeamsPerDivision}

\* the roster has 32 teams evenly split into 8 divisions of 4
EvenlySplit ==
    /\ Len(originalTeams) = LeagueSize
    /\ Cardinality(DivisionsPresent) = Len(DivisionNames)
    /\ BadDivisions = {}

\* the roster is a healthy one in which one team was moved to another division
OneTeamMoved ==
    /\ Len(originalTeams) = LeagueSize
    /\ Cardinality(realigned(originalTeams)) = 1

\* C18: validateDivisionIntegrity returns true if and only if the roster has
\* exactly 32 teams and every division present has exactly 4 members; it returns
\* true for a 32-team roster evenly split into 8 divisions of 4 and false after one
\* team of such a roster was moved to a different division.
C18_TrueIffHealthy ==
    DivisionsValidated =>
        /\ lastCall.result <=> (Len(originalTeams) = LeagueSize /\ BadDivisions = {})
        /\ EvenlySplit => lastCall.result
        /\ OneTeamMoved => ~lastCall.result

\* the validation has returned false for a roster whose divisions all have 4
\* members but which has not 32 teams
C18_Witness ==
    /\ DivisionsValidated
    /\ ~lastCall.result
    /\ BadDivisions = {}
    /\ Len(originalTeams) # LeagueSize

\* the validation has returned true for an evenly split roster
C18_WitnessHealthy ==
    DivisionsValidated /\ EvenlySplit /\ lastCall.result

\* the validation has returned false after one team was moved
C18_WitnessMoved ==
    DivisionsValidated /\ OneTeamMoved /\ ~lastCall.result

\* C19: one call of validateDivisionIntegrity emits exactly one diagnostic line
\* for every division whose member count is not 4, naming the division and its
\* count, and none for a division with 4 members; after one team of a healthy
\* roster was moved, the lines are those of the two divisions involved.
C19_OneDiagnosticPerBadDivision ==
    DivisionsValidated =>
        /\ Len(lastCall.warnings) = Cardinality(BadDivisions)
        /\ \A divisionId \in BadDivisions :
              \E k \in DOMAIN lastCall.warnings :
                  /\ lastCall.warnings[k].division = ExportedDivisionNames[divisionId]
                  /\ lastCall.warnings[k].count = Cardinality(MembersOf(divisionId))
        /\ OneTeamMoved => Len(lastCall.warnings) = 2

----------------------------------------------------------------------------
(* Display order: claims *)

DisplayOrdered == lastCall.op = "getEnhancedLatestTeams"

\* C20: the display-order accessor returns the enriched teams ordered by
\* divisionId ascending and, within one division, by overlaid display name
\* ascending: of two adjacent teams of the result the earlier one has the smaller
\* divisionId, or the same divisionId and a display name not greater than the
\* later one's.
C20_OrderedByDivisionIdThenName ==
    DisplayOrdered =>
        \A k \in 1..(Len(lastCall.result) - 1) :
            LET earlier == lastCall.result[k]
                later == lastCall.result[k + 1]
            IN \/ earlier.divisionId < later.divisionId
               \/ /\ earlier.divisionId = later.divisionId
                  /\ localeCompare(earlier.displayName, later.displayName) <= 0

----------------------------------------------------------------------------
(* Enrichment, detection and staleness: claims *)

\* the registry after enhanceTeamData is given the result of the last call
RegistryAfterSecondRun == autoDetectExpansionTeams(expansionTeamMappings, lastCall.result)

\* what enhanceTeamData returns when it is given the result of the last call
SecondRun == enhancedTeamData(RegistryAfterSecondRun, lastCall.result)

\* C21: enrich is idempotent on its overlay fields: with the registry unchanged,
\* feeding the output of enrich back through enrich yields for every team the same
\* displayName, nickName, logoId and isExpansionTeam as the first run, and leaves
\* the registry unchanged.
C21_EnrichIdempotent ==
    Enhanced =>
        /\ RegistryAfterSecondRun = expansionTeamMappings
        /\ Len(SecondRun) = Len(lastCall.result)
        /\ \A i \in DOMAIN lastCall.result :
              \A field \in {"displayName", "nickName", "logoId", "isExpansionTeam"} :
                  SecondRun[i][field] = lastCall.result[i][field]

\* enrich has overlaid a team with another name and another logo, and the second
\* run on that output keeps both
C21_Witness ==
    /\ Enhanced
    /\ \E i \in DOMAIN lastCall.result :
          /\ lastCall.result[i].isExpansionTeam
          /\ lastCall.result[i].displayName # lastCall.teams[i].displayName
          /\ lastCall.result[i].logoId # lastCall.teams[i].logoId
          /\ SecondRun[i].displayName = lastCall.result[i].displayName
          /\ SecondRun[i].logoId = lastCall.result[i].logoId
          /\ SecondRun[i].originalDisplayName # lastCall.result[i].originalDisplayName

\* the mapping a detection is to write for a team record
DetectionOf(team) ==
    [expansionName |-> CandidateName(team),
     originalTeamId |-> team.teamId,
     originalTeamName |-> IF "originalName" \in DOMAIN team /\ team.originalName # <<>>
                          THEN team.originalName ELSE CandidateName(team),
     divisionId |-> team.divisionId,
     conferenceId |-> team.conferenceId]

\* C22: under any interleaving of register, remove and autoDetect invocations
\* the registry holds one mapping per teamId, filed under its own teamId, and
\* every mapping a step writes has all of its fields from the one register call
\* or from the one detection of that step; a detection writes only for a teamId
\* that holds no mapping when the same step begins.
C22_WritesAreAtomic ==
    [][\A teamId \in DOMAIN expansionTeamMappings' :
          /\ expansionTeamMappings'[teamId].originalTeamId = teamId
          /\ expansionTeamMappings'[teamId] # getExpansionTeamMapping(expansionTeamMappings, teamId)
                => \/ /\ lastCall'.op = "registerExpansionTeam"
                      /\ lastCall'.teamId = teamId
                      /\ expansionTeamMappings'[teamId] = MappingOfCall(lastCall')
                   \/ /\ lastCall'.op \in {"autoDetectExpansionTeams", "enhanceTeamData",
                                        "enhanceTeamEvents"}
                      /\ teamId \notin DOMAIN expansionTeamMappings
                      /\ \E i \in DOMAIN lastCall'.teams :
                            /\ lastCall'.teams[i].teamId = teamId
                            /\ expansionTeamMappings'[teamId] = DetectionOf(lastCall'.teams[i])]_vars

\* a detection has written the mapping of one team while another team holds a
\* mapping that only a register call can have written
C22_Witness ==
    /\ AutoDetected
    /\ lastCall.registered # {}
    /\ \E other \in DOMAIN expansionTeamMappings \ lastCall.registered :
          expansionTeamMappings[other].expansionName = sBears
    /\ \A teamId \in DOMAIN expansionTeamMappings :
          expansionTeamMappings[teamId].originalTeamId = teamId

\* an enriched record shows the overlay the registry now holds for the exported team
ShowsCurrentOverlay(shown, exported) ==
    /\ shown.isExpansionTeam = isExpansionTeam(expansionTeamMappings, exported.teamId)
    /\ shown.displayName
          = getTeamDisplayName(expansionTeamMappings, exported.teamId, exported.displayName)

\* C23: enriched teams and search records reflect the registry at the time they
\* are read: after a mapping is registered or removed once an enhanced team list
\* exists, getEnhancedTeamForId, getEnhancedLatestTeams and the search index built
\* from the list show every team's overlay according to the registry as it is now.
C23_AccessorsReflectRegistry ==
    enhancedTeams # <<>> =>
        /\ \A i \in DOMAIN originalTeams :
              ShowsCurrentOverlay(
                  getEnhancedTeamForId(teamMap, originalTeams, originalTeams[i].teamId),
                  originalTeams[i])
        /\ DisplayOrdered =>
              \A k \in DOMAIN lastCall.result :
                  ShowsCurrentOverlay(lastCall.result[k], teamWithId(lastCall.result[k].teamId))
        /\ \A i \in DOMAIN originalTeams :
              ShowsCurrentOverlay(
                  createEnhancedTeamSearchIndex(expansionTeamMappings, enhancedTeams)
                      [originalTeams[i].teamId],
                  originalTeams[i])

\* C28: after every enrich call, each input team whose candidate name is a
\* Catalog key is registered and appears in the result with isExpansion true,
\* including a team whose mapping was removed just before the call.
C28_NamedTeamsAreRestored ==
    Enhanced =>
        \A i \in DOMAIN lastCall.teams :
            CandidateName(lastCall.teams[i]) \in DOMAIN EXPANSION_TEAMS =>
                /\ lastCall.teams[i].teamId \in DOMAIN expansionTeamMappings
                /\ lastCall.result[i].isExpansionTeam

\* an enrich call that directly follows the removal of a team's mapping has
\* registered that team again, because the team still carries a Catalog name
C28_Witness ==
    /\ Enhanced
    /\ \E i \in DOMAIN lastCall.teams :
          /\ lastCall.teams[i].teamId \in lastCall.afterRemovalOf
          /\ CandidateName(lastCall.teams[i]) \in DOMAIN EXPANSION_TEAMS
          /\ lastCall.teams[i].teamId \in DOMAIN expansionTeamMappings
          /\ lastCall.result[i].isExpansionTeam

\* the records of a call that enriches: those of enhanceTeamData or of enhanceTeamEvents
EnrichedRecords == lastCall.op \in {"enhanceTeamData", "enhanceTeamEvents"}

\* C29: enrich returns a sequence of the same length as its input, with the same
\* teamId at every position; so does enhanceTeamEvents.
C29_SameTeamsInSameOrder ==
    EnrichedRecords =>
        /\ Len(lastCall.result) = Len(lastCall.teams)
        /\ \A i \in DOMAIN lastCall.teams :
              lastCall.result[i].teamId = lastCall.teams[i].teamId

\* a roster with an expansion team in second place was enriched: the records come
\* back in the order of the roster
C29_Witness ==
    /\ Enhanced
    /\ Len(lastCall.result) = 2
    /\ lastCall.result[1].teamId # lastCall.result[2].teamId
    /\ ~lastCall.result[1].isExpansionTeam
    /\ lastCall.result[2].isExpansionTeam
    /\ \A i \in DOMAIN lastCall.teams :
          lastCall.result[i].teamId = lastCall.teams[i].teamId

----------------------------------------------------------------------------
(* The classifier and the sim label: claims *)

\* a result with FORCE_WIN_HOME and FORCE_WIN_AWAY exchanged
Exchanged(result) ==
    IF result = "FORCE_WIN_HOME" THEN "FORCE_WIN_AWAY"
    ELSE IF result = "FORCE_WIN_AWAY" THEN "FORCE_WIN_HOME"
    ELSE result

\* C24: classify is symmetric: classify(B, A) equals classify(A, B) with
\* FORCE_WIN_HOME and FORCE_WIN_AWAY exchanged; FAIR_SIM and NONE map to themselves.
C24_ClassifySymmetric ==
    Classified =>
        /\ simResult = classify(homeUsers, awayUsers)
        /\ classify(awayUsers, homeUsers) = Exchanged(simResult)

\* the classifier has run on a one-sided pair of different sizes, and on the
\* exchanged pair it gives the other side the win
C24_Witness ==
    /\ Classified
    /\ Cardinality(homeUsers) > 1
    /\ awayUsers = {}
    /\ simResult = "FORCE_WIN_HOME"
    /\ classify(awayUsers, homeUsers) = "FORCE_WIN_AWAY"

\* C26, as stated: the historical classifier, which checks "both non-empty" first
\* and then "home non-empty", reports the home-only input as FAIR_SIM and so
\* differs from the corrected classifier on that input.
C26_BeforeMisreportsHomeOnly ==
    (Classified /\ homeUsers # {} /\ awayUsers = {}) =>
        /\ classifyBefore(homeUsers, awayUsers) = "FAIR_SIM"
        /\ classifyBefore(homeUsers, awayUsers) # simResult

\* C26, as the code has it: the historical classifier, which checks "both
\* non-empty" first and then "home non-empty", reports the home-only input as
\* FORCE_WIN_HOME and two non-empty sets as FAIR_SIM, so it agrees with the
\* corrected classifier on every input whose home set is non-empty.
C26_BeforeAgreesOnHome ==
    (Classified /\ homeUsers # {}) =>
        /\ classifyBefore(homeUsers, awayUsers) = simResult
        /\ awayUsers = {} => classifyBefore(homeUsers, awayUsers) = "FORCE_WIN_HOME"
        /\ awayUsers # {} => classifyBefore(homeUsers, awayUsers) = "FAIR_SIM"

\* the corrected classifier has run on a home-only input, and the historical one
\* gives the home side the win on it as well
C26_Witness ==
    /\ Classified
    /\ homeUsers # {}
    /\ awayUsers = {}
    /\ simResult = "FORCE_WIN_HOME"
    /\ classifyBefore(homeUsers, awayUsers) = "FORCE_WIN_HOME"

\* the label has been asked for
LabelAsked == lastCall.op = "createSimMessage"

\* C30: the scoreboard's sim label (createSimMessage) is defined for every
\* SimResult value: for a stored sim whose result is any of FORCE_WIN_HOME,
\* FORCE_WIN_AWAY, FAIR_SIM or NONE it returns a label and never raises.
C30_LabelForEveryResult ==
    (LabelAsked /\ lastCall.sim.result \in {"FORCE_WIN_HOME", "FORCE_WIN_AWAY", "FAIR_SIM", "NONE"}) =>
        /\ "label" \in DOMAIN lastCall.result
        /\ "thrown" \notin DOMAIN lastCall.result

----------------------------------------------------------------------------
(* The resolver and abbreviations: claims *)

\* the teams whose abbreviation equals the text, case ignored
AbbrIds(teamReference) ==
    {id \in DOMAIN SearchIndexNow :
        toLowerCase(SearchIndexNow[id].abbrName) = toLowerCase(teamReference)}

\* the teams whose abbreviation contains the text, case ignored, without being equal to it
ProperAbbrPartIds(teamReference) ==
    {id \in DOMAIN SearchIndexNow :
        /\ includes(toLowerCase(SearchIndexNow[id].abbrName), toLowerCase(teamReference))
        /\ toLowerCase(SearchIndexNow[id].abbrName) # toLowerCase(teamReference)}

\* a text that is part of an abbreviation and of nothing else yields the not-found error
AbbrPartNotFound ==
    (Validated /\ ProperAbbrPartIds(lastCall.teamReference) # {}
               /\ ExactIds(lastCall.teamReference) = {}
               /\ PartialIds(lastCall.teamReference) = {}) =>
        /\ lastCall.result.valid = FALSE
        /\ lastCall.result.error.message = "No team found"

\* C25: the partial pass of resolve does not consult abbrName: a query that
\* equals a team's abbrName, case ignored, resolves to that team through the exact
\* pass, while a query that is only a proper part of a team's abbrName and matches
\* no name or city field of any team yields a not-found error.
C25_AbbrExactOnlyForEveryTeam ==
    /\ Validated =>
          \A id \in AbbrIds(lastCall.teamReference) :
              /\ lastCall.result.valid
              /\ lastCall.result.team.teamId = id
    /\ AbbrPartNotFound

\* C25, for an abbreviation that names one team: a query that equals a team's
\* abbrName, case ignored, and matches no other team in the exact pass resolves to
\* that team; a query that is only a proper part of a team's abbrName and matches
\* no name or city field of any team yields a not-found error.
C25_AbbrExactOnly ==
    /\ Validated =>
          \A id \in AbbrIds(lastCall.teamReference) :
              ExactIds(lastCall.teamReference) = {id} =>
                  /\ lastCall.result.valid
                  /\ lastCall.result.team.teamId = id
    /\ AbbrPartNotFound

\* "YJ" was asked for while the Jets carry the abbreviation NYJ: not found
C25_Witness ==
    /\ Validated
    /\ lastCall.teamReference = sYJ
    /\ ProperAbbrPartIds(sYJ) # {}
    /\ ExactIds(sYJ) = {}
    /\ PartialIds(sYJ) = {}
    /\ lastCall.result.valid = FALSE
    /\ lastCall.result.error.message = "No team found"

\* "dra" was asked for while one team carries the abbreviation DRA: that team is returned
C25_WitnessExact ==
    /\ Validated
    /\ lastCall.teamReference = sdra
    /\ \E id \in AbbrIds(sdra) :
          /\ ExactIds(sdra) = {id}
          /\ lastCall.result.valid
          /\ lastCall.result.team.teamId = id

----------------------------------------------------------------------------
(* The export pipeline: claims *)

\* processEnhancedTeamData has thrown
Rejected == lastCall.op = "processEnhancedTeamData" /\ lastCall.thrown

\* C27: when processEnhancedTeamData rejects an export (validateEnhancedTeamExport
\* reports issues and the call throws without storing), the registry is the same
\* as before the call.
C27_RejectedExportLeavesRegistry ==
    Rejected =>
        /\ lastCall.stored = <<>>
        /\ expansionTeamMappings = lastCall.before

====
